---- MODULE Spec2Model ----
(***************************************************************************)
(* Model of the entity-component simulation of CaucaVR (src/functions.js): *)
(* the four ECS systems run once per animation frame, plus the             *)
(* asynchronous events (XR session start/end, exit timer) that happen      *)
(* between frames.                                                         *)
(*                                                                         *)
(* Lengths are integers in units of 0.01 (so surfaceY 0.05 is 5 and        *)
(* fullPressDistance 0.02 is 2).  Time is counted in ticks of 50 ms, so    *)
(* recoverySpeed 0.4/s is 2 units per tick and 0.2/s is 1 unit per tick.   *)
(* Head coordinates are integers in units of 0.1.                          *)
(***************************************************************************)
EXTENDS Integers, Sequences, FiniteSets, TLC

\* ------------------------------------------------------------------ bounds
MaxDelta == 2      \* largest frame delta, in ticks
MaxPress == 4      \* deepest single-frame pressing distance, in units
MaxHead  == 1      \* head coordinates range over 0..MaxHead
MaxTimers == 2     \* pending exit timers kept at once
MaxSessions == 2   \* XR sessions started in one behaviour

\* ------------------------------------------------------- program constants
Buttons == <<"next", "back", "home", "exit">>   \* entity creation order
ButtonIds == {Buttons[i] : i \in 1..Len(Buttons)}
States == {"resting", "pressed", "fully_pressed", "recovering"}
NumScenes == 6
InitialY == 4                                   \* mesh.position.y = 0.04
SurfaceY == 5                                   \* surfaceY: 0.05
Offset == <<0, -4, -3>>                         \* OffsetFromCamera of console
ConsoleInit == <<0, 10, -3>>                    \* consoleMesh.position

FullPressDistance(b) == IF b = "exit" THEN 3 ELSE 2
RecoverySpeed(b) == IF b = "exit" THEN 1 ELSE 2  \* units per tick

\* variant: FingerInputSystem is registered before ButtonSystem
ExecuteOrderSwapped == <<"InstructionSystem", "CalibrationSystem",
                         "FingerInputSystem", "ButtonSystem">>

\* world.registerSystem order; world.execute runs the systems in this order
ExecuteOrder == <<"InstructionSystem", "CalibrationSystem", "ButtonSystem",
                  "FingerInputSystem">>

\* ------------------------------------------------------------------ inputs
Hands == 1..2
Deltas == 0..MaxDelta
LocalYs == (SurfaceY - MaxPress)..(SurfaceY + 1)
Heads == {<<x, y, z>> : x \in 0..MaxHead, y \in 0..MaxHead, z \in 0..MaxHead}
NoTouch == [hit |-> FALSE]
Touch(b, y) == [hit |-> TRUE, b |-> b, y |-> y]
\* the poses one hand can take over the buttons in r
TouchesOf(r) == {NoTouch} \cup {Touch(b, y) : b \in r, y \in LocalYs}

VARIABLES
    pc,            \* the system world.execute runs next in the frame
    button,        \* Button component of every button entity
    posY,          \* object.position.y of every button mesh
    session,       \* renderer.xr.getSession() is non-null
    soundAdded,    \* ButtonSystem.soundAdded
    needCalibration, \* csEntity carries the NeedCalibration tag
    consolePos,    \* consoleMesh.position
    grips,         \* controllerGrip1.visible, controllerGrip2.visible
    instructionVisible, \* instructionText.visible
    currentSceneIndex,
    exitVisible,   \* exitText.visible
    timers,        \* pending setTimeout callbacks of ebAction
    crashed,       \* a timer callback threw on a null session
    reach,         \* environment: the buttons the user's hands can get to
    \* -- observation variables (never read by the systems)
    calls,         \* per button: calls made by the last ButtonSystem pass
    fis,           \* per button: state left by the last two FingerInputSystem passes
    contact,       \* per button: hands that intersected it in the last
                   \* FingerInputSystem pass and their deepest pressing distance
    runCalls,      \* per button: action calls for the current contact run
    calibration,   \* the pass that calibrated the console: head read, session
                   \* number, and whether an earlier pass found no session
    sessions,      \* number of sessions started so far (capped)
    frameLog,      \* systems world.execute has run so far in the current frame
    nav            \* the last two scene actions and the index before each

vars == <<pc, reach, button, posY, session, soundAdded, needCalibration, consolePos,
          instructionVisible, currentSceneIndex, exitVisible, timers, crashed,
          calls, fis, contact, runCalls, calibration, sessions, grips,
          frameLog, nav>>

\* ----------------------------------------------------------------- helpers
Null == <<>>                      \* JS null for a Types.Number field
Some(y) == <<y>>
\* numeric value of a possibly-null number in a JS comparison / subtraction
Num(v) == IF v = Null THEN 0 ELSE v[1]

NaN == [nan |-> TRUE, val |-> 0]
Number(n) == [nan |-> FALSE, val |-> n]

\* Math.max called with ONE argument that is an array: the array is coerced
\* with ToNumber, i.e. [] -> 0, [x] -> x, [x, y, ...] -> NaN.
MathMax(arr) ==
    IF Len(arr) = 0 THEN Number(0)
    ELSE IF Len(arr) = 1 THEN Number(arr[1])
    ELSE NaN

\* true maximum of a non-empty sequence of numbers
RECURSIVE TrueMax(_)
TrueMax(arr) ==
    IF Len(arr) = 1 THEN arr[1]
    ELSE LET m == TrueMax(Tail(arr)) IN IF arr[1] > m THEN arr[1] ELSE m

\* the system that runs after system sys; after the last one the frame ends
\* and the next frame starts with the first
NextSystem(sys) ==
    LET i == CHOOSE k \in 1..Len(ExecuteOrder) : ExecuteOrder[k] = sys
    IN ExecuteOrder[(i % Len(ExecuteOrder)) + 1]

\* the JS remainder a % n for n > 0: the sign follows the dividend
JsMod(a, n) == IF a >= 0 THEN a % n ELSE -((-a) % n)

\* pressingDistances of one button: one entry per intersecting hand, in the
\* order of this.hands
RECURSIVE Distances(_, _, _)
Distances(touch, b, h) ==
    IF h > 2 THEN <<>>
    ELSE (IF touch[h].hit /\ touch[h].b = b
          THEN <<SurfaceY - touch[h].y>> ELSE <<>>)
         \o Distances(touch, b, h + 1)

\* -------------------------------------------------------------------- Init
NoCalls == [action |-> 0, press |-> 0, release |-> 0]
NoNav == [last |-> "none", prior |-> "none", before |-> 0, before2 |-> 0]

InitWith(r) ==
    /\ pc = ExecuteOrder[1]
    /\ reach = r
    /\ button = [b \in ButtonIds |->
                   [currState |-> "resting", prevState |-> "resting",
                    pressSound |-> FALSE, releaseSound |-> FALSE,
                    restingY |-> Null]]
    /\ posY = [b \in ButtonIds |-> InitialY]
    /\ session = FALSE
    /\ soundAdded = FALSE
    /\ needCalibration = TRUE
    /\ consolePos = ConsoleInit
    /\ instructionVisible = TRUE
    /\ currentSceneIndex = 0
    /\ exitVisible = FALSE
    /\ timers = 0
    /\ crashed = FALSE
    /\ calls = [b \in ButtonIds |-> NoCalls]
    /\ fis = [b \in ButtonIds |-> <<"none", "none">>]
    /\ contact = [b \in ButtonIds |-> [hands |-> 0, deepest |-> 0]]
    /\ runCalls = [b \in ButtonIds |-> 0]
    /\ calibration = [head |-> <<0, 0, 0>>, session |-> 0, skipped |-> FALSE]
    /\ sessions = 0
    /\ grips = <<FALSE, FALSE>>
    /\ frameLog = <<>>
    /\ nav = NoNav

\* the frame log once the system at pc has run; a new frame starts the log
Logged == IF pc = ExecuteOrder[1] THEN <<pc>> ELSE Append(frameLog, pc)

\* ------------------------------------------------------- InstructionSystem
\* variant: the text stays visible once it has been shown
InstructionSystemSticky(v1, v2) ==
    /\ pc = "InstructionSystem"
    /\ instructionVisible' = (instructionVisible \/ v1 \/ v2)
    /\ pc' = NextSystem(pc)
    /\ grips' = <<v1, v2>>
    /\ frameLog' = Logged
    /\ UNCHANGED <<reach, button, posY, session, soundAdded, needCalibration,
                   consolePos, currentSceneIndex, exitVisible, timers, crashed,
                   calls, fis, contact, runCalls, calibration, sessions,
                   nav>>

InstructionSystem(v1, v2) ==
    /\ pc = "InstructionSystem"
    /\ instructionVisible' = (v1 \/ v2)
    /\ pc' = NextSystem(pc)
    /\ grips' = <<v1, v2>>
    /\ frameLog' = Logged
    /\ UNCHANGED <<reach, button, posY, session, soundAdded, needCalibration,
                   consolePos, currentSceneIndex, exitVisible, timers, crashed,
                   calls, fis, contact, runCalls, calibration, sessions,
                   nav>>

\* ------------------------------------------------------- CalibrationSystem
\* variant: the offset is not added
CalibratedNoOffset(head) == head

\* position = xrCamera.position + offset, componentwise: lines 193-195
Calibrated(head) == [i \in 1..3 |-> head[i] + Offset[i]]

\* variant: every entity with an offset is re-aligned in every frame of a
\* session, marked or not
CalibrationSystemEveryFrame(head) ==
    /\ pc = "CalibrationSystem"
    /\ IF session
       THEN /\ consolePos' = Calibrated(head)
            /\ needCalibration' = FALSE
            /\ calibration' = [calibration EXCEPT !.head = head,
                                                  !.session = sessions]
       ELSE /\ UNCHANGED <<consolePos, needCalibration>>
            /\ calibration' = [calibration EXCEPT
                                 !.skipped = @ \/ needCalibration]
    /\ pc' = NextSystem(pc)
    /\ frameLog' = Logged
    /\ UNCHANGED <<reach, button, posY, session, soundAdded, instructionVisible,
                   currentSceneIndex, exitVisible, timers, crashed,
                   calls, fis, contact, runCalls, sessions,
                   grips, nav>>

CalibrationSystem(head) ==
    /\ pc = "CalibrationSystem"
    /\ IF needCalibration /\ session
       THEN /\ consolePos' = Calibrated(head)
            /\ needCalibration' = FALSE
            /\ calibration' = [calibration EXCEPT !.head = head,
                                                  !.session = sessions]
       ELSE /\ UNCHANGED <<consolePos, needCalibration>>
            /\ calibration' = [calibration EXCEPT
                                 !.skipped = @ \/ needCalibration]
    /\ pc' = NextSystem(pc)
    /\ frameLog' = Logged
    /\ UNCHANGED <<reach, button, posY, session, soundAdded, instructionVisible,
                   currentSceneIndex, exitVisible, timers, crashed,
                   calls, fis, contact, runCalls, sessions,
                   grips, nav>>

\* ------------------------------------------------------------ ButtonSystem
\* variant: level-triggered, fires in every pass that sees fully_pressed
PressEdgeLevel(bt) == bt.currState = "fully_pressed"
\* variant: level-triggered, fires in every pass that sees recovering
ReleaseEdgeLevel(bt) == bt.currState = "recovering"

\* rising edge into fully_pressed: lines 72-75
PressEdge(bt) == bt.currState = "fully_pressed" /\ bt.prevState # "fully_pressed"
\* rising edge into recovering: lines 76-78
ReleaseEdge(bt) == bt.currState = "recovering" /\ bt.prevState # "recovering"

\* variant: prevState is not preserved
ButtonStepKeepPrev(bt, y, bindNow) ==
    [currState |-> "resting",
     prevState |-> bt.prevState,
     pressSound |-> (bt.pressSound \/ bindNow),
     releaseSound |-> (bt.releaseSound \/ bindNow),
     restingY |-> IF bt.restingY = Null THEN Some(y) ELSE bt.restingY]

\* variant: restingY is captured again in every pass
ButtonStepRecapture(bt, y, bindNow) ==
    [currState |-> "resting",
     prevState |-> bt.currState,
     pressSound |-> (bt.pressSound \/ bindNow),
     releaseSound |-> (bt.releaseSound \/ bindNow),
     restingY |-> Some(y)]

\* the per-entity body of ButtonSystem.execute, without the callbacks
ButtonStep(bt, y, bindNow) ==
    [currState |-> "resting",
     prevState |-> bt.currState,
     pressSound |-> (bt.pressSound \/ bindNow),
     releaseSound |-> (bt.releaseSound \/ bindNow),
     restingY |-> IF bt.restingY = Null THEN Some(y) ELSE bt.restingY]

\* variant: the index is decremented without adding scenes.length first
prevSceneNoWrap(i) == JsMod(i - 1, NumScenes)

\* the record of scene actions after action a was applied at index i
Noted(n, a, i) == [last |-> a, prior |-> n.last, before |-> i, before2 |-> n.before]

nextScene(i) == JsMod(i + 1, NumScenes)
prevScene(i) == JsMod(i - 1 + NumScenes, NumScenes)
rbAction(i) == 0

ButtonSystem ==
    /\ pc = "ButtonSystem"
    /\ LET bindNow == session /\ ~soundAdded
           fire(b) == PressEdge(button[b])
           i1 == IF fire("next") THEN nextScene(currentSceneIndex) ELSE currentSceneIndex
           i2 == IF fire("back") THEN prevScene(i1) ELSE i1
           i3 == IF fire("home") THEN rbAction(i2) ELSE i2
       IN /\ soundAdded' = (soundAdded \/ bindNow)
          /\ button' = [b \in ButtonIds |-> ButtonStep(button[b], posY[b], bindNow)]
          /\ calls' = [b \in ButtonIds |->
                 [action |-> IF fire(b) THEN 1 ELSE 0,
                  press |-> IF fire(b) /\ button'[b].pressSound THEN 1 ELSE 0,
                  release |-> IF ReleaseEdge(button[b]) /\ button'[b].releaseSound
                              THEN 1 ELSE 0]]
          /\ runCalls' = [b \in ButtonIds |->
                 IF fire(b) /\ runCalls[b] < 2 THEN runCalls[b] + 1 ELSE runCalls[b]]
          /\ currentSceneIndex' = i3
          /\ nav' = LET n1 == IF fire("next") THEN Noted(nav, "next", currentSceneIndex) ELSE nav
                        n2 == IF fire("back") THEN Noted(n1, "back", i1) ELSE n1
                    IN IF fire("home") THEN Noted(n2, "home", i2) ELSE n2
          /\ IF fire("exit")
             THEN /\ exitVisible' = TRUE
                  /\ timers' = timers + 1
             ELSE UNCHANGED <<exitVisible, timers>>
          /\ fire("exit") => timers < MaxTimers
    /\ pc' = NextSystem(pc)
    /\ frameLog' = Logged
    /\ UNCHANGED <<reach, posY, session, needCalibration, consolePos,
                   instructionVisible, crashed, fis, contact, calibration,
                   sessions,
                   grips>>

\* ------------------------------------------------------- FingerInputSystem
\* variant: recovery is clamped and reports resting as soon as it arrives
FingerStepClamped(b, y, restingY, dists, delta) ==
    IF Len(dists) = 0
    THEN IF y + RecoverySpeed(b) * delta < Num(restingY)
         THEN [y |-> y + RecoverySpeed(b) * delta, state |-> "recovering"]
         ELSE [y |-> Num(restingY), state |-> "resting"]
    ELSE LET pressingDistance == MathMax(dists)
             y1 == IF ~pressingDistance.nan /\ pressingDistance.val > 0
                   THEN y - pressingDistance.val ELSE y
         IN IF y1 <= Num(restingY) - FullPressDistance(b)
            THEN [y |-> Num(restingY) - FullPressDistance(b), state |-> "fully_pressed"]
            ELSE [y |-> y1, state |-> "pressed"]

\* variant: recovery does not move the button
FingerStepNoRecover(b, y, restingY, dists, delta) ==
    IF Len(dists) = 0
    THEN IF y < Num(restingY)
         THEN [y |-> y, state |-> "recovering"]
         ELSE [y |-> Num(restingY), state |-> "resting"]
    ELSE LET pressingDistance == MathMax(dists)
             y1 == IF ~pressingDistance.nan /\ pressingDistance.val > 0
                   THEN y - pressingDistance.val ELSE y
         IN IF y1 <= Num(restingY) - FullPressDistance(b)
            THEN [y |-> Num(restingY) - FullPressDistance(b), state |-> "fully_pressed"]
            ELSE [y |-> y1, state |-> "pressed"]

\* variant: a full press does not snap position.y to the full-press height
FingerStepNoSnap(b, y, restingY, dists, delta) ==
    IF Len(dists) = 0
    THEN IF y < Num(restingY)
         THEN [y |-> y + RecoverySpeed(b) * delta, state |-> "recovering"]
         ELSE [y |-> Num(restingY), state |-> "resting"]
    ELSE LET pressingDistance == MathMax(dists)
             y1 == IF ~pressingDistance.nan /\ pressingDistance.val > 0
                   THEN y - pressingDistance.val ELSE y
         IN IF y1 <= Num(restingY) - FullPressDistance(b)
            THEN [y |-> y1, state |-> "fully_pressed"]
            ELSE [y |-> y1, state |-> "pressed"]

\* variant: the full-press test is strict (< instead of <=)
FingerStepStrict(b, y, restingY, dists, delta) ==
    IF Len(dists) = 0
    THEN IF y < Num(restingY)
         THEN [y |-> y + RecoverySpeed(b) * delta, state |-> "recovering"]
         ELSE [y |-> Num(restingY), state |-> "resting"]
    ELSE LET pressingDistance == MathMax(dists)
             y1 == IF ~pressingDistance.nan /\ pressingDistance.val > 0
                   THEN y - pressingDistance.val ELSE y
         IN IF y1 < Num(restingY) - FullPressDistance(b)
            THEN [y |-> Num(restingY) - FullPressDistance(b), state |-> "fully_pressed"]
            ELSE [y |-> y1, state |-> "pressed"]

\* variant: the full-press test sits inside `if ( pressingDistance > 0 )`
FingerStepEdgeOnly(b, y, restingY, dists, delta) ==
    IF Len(dists) = 0
    THEN IF y < Num(restingY)
         THEN [y |-> y + RecoverySpeed(b) * delta, state |-> "recovering"]
         ELSE [y |-> Num(restingY), state |-> "resting"]
    ELSE LET pressingDistance == MathMax(dists)
             pushing == ~pressingDistance.nan /\ pressingDistance.val > 0
             y1 == IF pushing THEN y - pressingDistance.val ELSE y
         IN IF pushing /\ y1 <= Num(restingY) - FullPressDistance(b)
            THEN [y |-> Num(restingY) - FullPressDistance(b), state |-> "fully_pressed"]
            ELSE [y |-> y1, state |-> "pressed"]

\* variant: the recovery test is <= instead of <
FingerStepRecoverAtRest(b, y, restingY, dists, delta) ==
    IF Len(dists) = 0
    THEN IF y <= Num(restingY)
         THEN [y |-> y + RecoverySpeed(b) * delta, state |-> "recovering"]
         ELSE [y |-> Num(restingY), state |-> "resting"]
    ELSE LET pressingDistance == MathMax(dists)
             y1 == IF ~pressingDistance.nan /\ pressingDistance.val > 0
                   THEN y - pressingDistance.val ELSE y
         IN IF y1 <= Num(restingY) - FullPressDistance(b)
            THEN [y |-> Num(restingY) - FullPressDistance(b), state |-> "fully_pressed"]
            ELSE [y |-> y1, state |-> "pressed"]

\* the per-entity body of FingerInputSystem.execute: the new position.y and
\* currState of one button, given its pressingDistances and delta
FingerStep(b, y, restingY, dists, delta) ==
    IF Len(dists) = 0
    THEN IF y < Num(restingY)
         THEN [y |-> y + RecoverySpeed(b) * delta, state |-> "recovering"]
         ELSE [y |-> Num(restingY), state |-> "resting"]
    ELSE LET pressingDistance == MathMax(dists)
             y1 == IF ~pressingDistance.nan /\ pressingDistance.val > 0
                   THEN y - pressingDistance.val ELSE y
             floor == Num(restingY) - FullPressDistance(b)
         IN IF y1 <= floor
            THEN [y |-> floor, state |-> "fully_pressed"]
            ELSE [y |-> y1, state |-> "pressed"]

FingerInputSystem(delta, touch) ==
    /\ pc = "FingerInputSystem"
    /\ LET step(b) == FingerStep(b, posY[b], button[b].restingY,
                                 Distances(touch, b, 1), delta)
       IN /\ posY' = [b \in ButtonIds |-> step(b).y]
          /\ button' = [b \in ButtonIds |->
                          [button[b] EXCEPT !.currState = step(b).state]]
          /\ fis' = [b \in ButtonIds |-> <<step(b).state, fis[b][1]>>]
          /\ contact' = [b \in ButtonIds |->
                 LET d == Distances(touch, b, 1)
                 IN [hands |-> Len(d),
                     deepest |-> IF Len(d) = 0 THEN 0 ELSE TrueMax(d)]]
          /\ runCalls' = [b \in ButtonIds |->
                 IF Len(Distances(touch, b, 1)) = 0 THEN 0 ELSE runCalls[b]]
          \* bound: no new full press of exit while MaxTimers timers are pending
          /\ timers >= MaxTimers =>
                 ~(step("exit").state = "fully_pressed"
                   /\ button["exit"].prevState # "fully_pressed")
    /\ pc' = NextSystem(pc)
    /\ frameLog' = Logged
    /\ UNCHANGED <<reach, session, soundAdded, needCalibration, consolePos,
                   instructionVisible, currentSceneIndex, exitVisible, timers,
                   crashed, calls, calibration, sessions,
                   grips, nav>>

\* ------------------------------------------------ events between frames
SessionStart ==
    /\ pc = ExecuteOrder[1]
    /\ ~session
    /\ sessions < MaxSessions
    /\ session' = TRUE
    /\ sessions' = sessions + 1
    /\ UNCHANGED <<pc, reach, button, posY, soundAdded, needCalibration, consolePos,
                   instructionVisible, currentSceneIndex, exitVisible, timers,
                   crashed, calls, fis, contact, runCalls, calibration,
                   grips, frameLog, nav>>

\* the user leaves VR through the browser or the VRButton
SessionEnd ==
    /\ pc = ExecuteOrder[1]
    /\ session
    /\ session' = FALSE
    /\ UNCHANGED <<pc, reach, button, posY, soundAdded, needCalibration, consolePos,
                   instructionVisible, currentSceneIndex, exitVisible, timers,
                   crashed, calls, fis, contact, runCalls, calibration, sessions,
                   grips, frameLog, nav>>

\* the callback ebAction passed to setTimeout
TimerFire ==
    /\ pc = ExecuteOrder[1]
    /\ timers > 0
    /\ timers' = timers - 1
    /\ exitVisible' = FALSE
    /\ IF session
       THEN session' = FALSE /\ UNCHANGED crashed
       ELSE crashed' = TRUE /\ UNCHANGED session
    /\ UNCHANGED <<pc, reach, button, posY, soundAdded, needCalibration, consolePos,
                   instructionVisible, currentSceneIndex, calls, fis,
                   contact, runCalls, calibration, sessions,
                   grips, frameLog, nav>>

\* ---------------------------------------------------------- specifications
Origin == <<0, 0, 0>>

\* Spec: a user operates one of the four buttons with both hands, free
\* pressing depths and frame deltas; the head stays at the origin and the
\* controller grips are shown exactly while a session runs.
Init == \E b \in ButtonIds : InitWith({b})

Next ==
    \/ InstructionSystem(session, session)
    \/ CalibrationSystem(Origin)
    \/ ButtonSystem
    \/ \E delta \in Deltas, touch \in [Hands -> TouchesOf(reach)] :
           FingerInputSystem(delta, touch)
    \/ SessionStart

Spec == Init /\ [][Next]_vars

\* SpecHandsOff: no hand ever intersects a button; the head moves, the grips
\* come and go, sessions start and end.
InitHandsOff == InitWith({})

NextHandsOff ==
    \/ \E v1 \in BOOLEAN, v2 \in BOOLEAN : InstructionSystem(v1, v2)
    \/ \E head \in Heads : CalibrationSystem(head)
    \/ ButtonSystem
    \/ \E delta \in Deltas : FingerInputSystem(delta, [h \in Hands |-> NoTouch])
    \/ SessionStart
    \/ SessionEnd

SpecHandsOff == InitHandsOff /\ [][NextHandsOff]_vars

\* the user takes both hands away from the buttons for good
LetGo ==
    /\ pc = ExecuteOrder[1]
    /\ reach # {}
    /\ reach' = {}
    /\ UNCHANGED <<pc, button, posY, session, soundAdded, needCalibration,
                   consolePos, instructionVisible, currentSceneIndex,
                   exitVisible, timers, crashed, calls, fis, contact, runCalls,
                   calibration, sessions, grips, frameLog, nav>>

\* SpecRecover: as Spec without a session, every frame takes time (delta > 0),
\* and the user may let go of the button for good.  The animation loop calls
\* animate for every frame, so the frame steps are weakly fair.
PositiveDeltas == 1..MaxDelta

FrameStep ==
    \/ InstructionSystem(FALSE, FALSE)
    \/ CalibrationSystem(Origin)
    \/ ButtonSystem
    \/ \E delta \in PositiveDeltas, touch \in [Hands -> TouchesOf(reach)] :
           FingerInputSystem(delta, touch)

NextRecover == FrameStep \/ LetGo

SpecRecover == Init /\ [][NextRecover]_vars /\ WF_vars(FrameStep)

\* SpecExit: a user in a session operates the exit button; hands are tracked
\* only while a session runs, and only the exit timers end a session.  A
\* timer fires at any moment between two frames after it was set.
NoHands == [h \in Hands |-> NoTouch]
TrackedTouches == IF session THEN [Hands -> TouchesOf(reach)] ELSE {NoHands}

InitExit == InitWith({"exit"})

NextExit ==
    \/ InstructionSystem(session, session)
    \/ CalibrationSystem(Origin)
    \/ ButtonSystem
    \/ \E delta \in Deltas, touch \in TrackedTouches :
           FingerInputSystem(delta, touch)
    \/ SessionStart
    \/ TimerFire

SpecExit == InitExit /\ [][NextExit]_vars

\* SpecNav: a user works the next, back and home buttons with one finger,
\* pushing a button all the way down in one frame or not touching it; every
\* frame takes MaxDelta.
NavTouches ==
    {NoHands} \cup
    {[h \in Hands |-> IF h = 1 THEN Touch(b, SurfaceY - MaxPress) ELSE NoTouch] :
        b \in reach}

InitNav == InitWith({"next", "back", "home"})

NextNav ==
    \/ InstructionSystem(FALSE, FALSE)
    \/ CalibrationSystem(Origin)
    \/ ButtonSystem
    \/ \E touch \in NavTouches : FingerInputSystem(MaxDelta, touch)

SpecNav == InitNav /\ [][NextNav]_vars

TypeOK ==
    /\ pc \in {"InstructionSystem", "CalibrationSystem", "ButtonSystem", "FingerInputSystem"}
    /\ \A b \in ButtonIds : button[b].currState \in States /\ button[b].prevState \in States
    /\ currentSceneIndex \in 0..(NumScenes - 1)

\* --------------------------------------------------------------- properties
\* steps of the frame pipeline, as seen from outside
FingerPass == pc = "FingerInputSystem" /\ pc' # pc
ButtonPass == pc = "ButtonSystem" /\ pc' = "FingerInputSystem"
CalibrationPass == pc = "CalibrationSystem" /\ pc' = "ButtonSystem"
AfterButtonPass == pc = "FingerInputSystem"
RestY(b) == Num(button[b].restingY)
FloorY(b) == RestY(b) - FullPressDistance(b)

\* C1: the action is invoked once by the ButtonSystem pass that follows the
\* first frame of every run of frames FingerInputSystem leaves fully_pressed,
\* and by no other pass (not while the run goes on, not for pressed,
\* recovering or resting frames).
C1_ActionOncePerFullPressRun ==
    AfterButtonPass =>
        \A b \in ButtonIds :
            calls[b].action =
                IF fis[b][1] = "fully_pressed" /\ fis[b][2] # "fully_pressed"
                THEN 1 ELSE 0

\* a full press held for a second frame, whose pass did not call the action
\* again
C1_Witness ==
    \E b \in ButtonIds :
        /\ AfterButtonPass
        /\ fis[b] = <<"fully_pressed", "fully_pressed">>
        /\ calls[b].action = 0
        /\ runCalls[b] = 1

\* C2: a button whose release sound is bound plays it once in the
\* ButtonSystem pass that follows the first frame of every run of recovering
\* frames, and in no other pass.
C2_ReleaseOncePerRecoveringRun ==
    AfterButtonPass =>
        \A b \in ButtonIds : button[b].releaseSound =>
            calls[b].release =
                IF fis[b][1] = "recovering" /\ fis[b][2] # "recovering"
                THEN 1 ELSE 0

\* a second recovering frame, with the sound bound, that played nothing
C2_Witness ==
    \E b \in ButtonIds :
        /\ AfterButtonPass
        /\ button[b].releaseSound
        /\ fis[b] = <<"recovering", "recovering">>
        /\ calls[b].release = 0

\* C3: a FingerInputSystem pass without contact never leaves position.y
\* above restingY and never lowers position.y.
C3_RecoveryClamped ==
    [][FingerPass => \A b \in ButtonIds :
          contact'[b].hands = 0 =>
              /\ posY'[b] <= RestY(b)
              /\ posY'[b] >= posY[b]]_vars

\* C4: position.y is never below restingY - fullPressDistance.
C4_FullPressClamp ==
    \A b \in ButtonIds :
        button[b].restingY # Null => posY[b] >= FloorY(b)

\* one frame from rest with a contact deeper than fullPressDistance
C4_Witness ==
    \E b \in ButtonIds :
        /\ contact[b].hands = 1
        /\ contact[b].deepest > FullPressDistance(b)
        /\ fis[b] = <<"fully_pressed", "resting">>
        /\ posY[b] = FloorY(b)

\* C5: with two intersecting hands the button is pushed down by the larger
\* of the two pressing distances, as if only the deeper hand were there.
C5_DeepestHandWins ==
    [][FingerPass => \A b \in ButtonIds :
          contact'[b].hands = 2 =>
              LET d == contact'[b].deepest
                  pushed == IF d > 0 THEN posY[b] - d ELSE posY[b]
              IN posY'[b] = IF pushed <= FloorY(b) THEN FloorY(b) ELSE pushed]_vars

\* C8: in a run of contact frames a fully_pressed button stays fully_pressed,
\* and the action is called at most once for the run.
C8_FullPressHeld ==
    [][\A b \in ButtonIds :
          /\ (FingerPass /\ fis[b][1] = "fully_pressed" /\ contact'[b].hands > 0)
                 => fis'[b][1] = "fully_pressed"
          /\ runCalls'[b] <= 1]_vars

\* a fully_pressed button kept in contact by a hand that no longer pushes
C8_Witness ==
    \E b \in ButtonIds :
        /\ fis[b] = <<"fully_pressed", "fully_pressed">>
        /\ contact[b].hands = 1
        /\ contact[b].deepest <= 0
        /\ runCalls[b] = 1

\* C9: one frame with a single contact of pressing distance >=
\* fullPressDistance on a button at rest leaves position.y = restingY -
\* fullPressDistance and state fully_pressed, and the next ButtonSystem pass
\* calls the action once.
C9_SingleFrameFullPress ==
    [][\A b \in ButtonIds :
          /\ (/\ FingerPass
              /\ button[b].restingY # Null /\ posY[b] = RestY(b)
              /\ contact'[b].hands = 1
              /\ contact'[b].deepest >= FullPressDistance(b))
                 => /\ posY'[b] = RestY(b) - FullPressDistance(b)
                    /\ button'[b].currState = "fully_pressed"
                    /\ fis'[b][2] # "fully_pressed"
          /\ (/\ ButtonPass
              /\ fis[b][1] = "fully_pressed" /\ fis[b][2] # "fully_pressed"
              /\ contact[b].hands = 1
              /\ contact[b].deepest >= FullPressDistance(b))
                 => calls'[b].action = 1 /\ runCalls'[b] = 1]_vars

\* the pass after a single-frame full press from rest has called the action
C9_Witness ==
    \E b \in ButtonIds :
        /\ AfterButtonPass
        /\ fis[b] = <<"fully_pressed", "resting">>
        /\ contact[b].hands = 1
        /\ contact[b].deepest >= FullPressDistance(b)
        /\ posY[b] = RestY(b) - FullPressDistance(b)
        /\ calls[b].action = 1

\* C6: once the needs-calibration marker is gone it never comes back and the
\* console position never changes again, through later passes, head
\* movement, session end and a new session.
C6_CalibratedOnce ==
    [][~needCalibration =>
          ~needCalibration' /\ consolePos' = consolePos]_vars

\* a CalibrationSystem pass has just run in a second session, the console
\* having been calibrated in the first
C6_Witness ==
    /\ ~needCalibration
    /\ calibration.session = 1
    /\ sessions = 2
    /\ session
    /\ pc = "ButtonSystem"

\* C7: a CalibrationSystem pass over a marked entity leaves position and
\* marker alone when there is no session, and with a session sets
\* position = head position + (0, -0.4, -0.3) componentwise and removes the
\* marker in that pass.
C7_CalibrateWhenTracked ==
    [][(CalibrationPass /\ needCalibration) =>
          IF session
          THEN /\ ~needCalibration'
               /\ consolePos'[1] = calibration'.head[1]
               /\ consolePos'[2] = calibration'.head[2] - 4
               /\ consolePos'[3] = calibration'.head[3] - 3
          ELSE needCalibration' /\ consolePos' = consolePos]_vars

\* calibrated to a head away from the origin, after a pass that found no
\* session
C7_Witness ==
    /\ ~needCalibration
    /\ calibration.skipped
    /\ calibration.head = <<1, 1, 1>>
    /\ consolePos = <<1, -3, -2>>

\* C10: while no hand intersects any button, every button is resting at
\* restingY and no action or sound is triggered.
C10_NoHandsRest ==
    \A b \in ButtonIds :
        /\ button[b].currState = "resting"
        /\ fis[b][1] \in {"none", "resting"}
        /\ posY[b] = InitialY
        /\ button[b].restingY \in {Null, Some(InitialY)}
        /\ calls[b] = NoCalls

\* two frames have passed over every button, with the sounds bound
C10_Witness ==
    /\ reach = {}
    /\ soundAdded
    /\ \A b \in ButtonIds :
          /\ fis[b] = <<"resting", "resting">>
          /\ button[b].releaseSound /\ button[b].pressSound

InstructionPass == pc = "InstructionSystem" /\ pc' # pc

\* C11: every InstructionSystem pass leaves the instruction text visible
\* exactly when at least one of the two controller grips is visible in that
\* frame, whatever the text's visibility was before.
C11_TextFollowsGrips ==
    [][InstructionPass =>
          instructionVisible' = (grips'[1] \/ grips'[2])]_vars

\* the text, visible from construction, is hidden by a pass that finds both
\* grips invisible
C11_Witness ==
    /\ pc = "CalibrationSystem"
    /\ grips = <<FALSE, FALSE>>
    /\ ~instructionVisible

\* the state a button has before any FingerInputSystem pass is the default
Norm(st) == IF st = "none" THEN "resting" ELSE st

\* C12: ButtonSystem runs before FingerInputSystem in the frame; the pair it
\* tests is (state FingerInputSystem left two frames ago, state it left in
\* the last frame); it then sets prevState to that currState and currState
\* to resting, and FingerInputSystem runs next.
C12_ButtonReadsLastFrame ==
    [][/\ pc = "ButtonSystem" =>
             \A b \in ButtonIds :
                 /\ button[b].prevState = Norm(fis[b][2])
                 /\ button[b].currState = Norm(fis[b][1])
       /\ ButtonPass =>
             /\ pc' = "FingerInputSystem"
             /\ \A b \in ButtonIds :
                    /\ button'[b].prevState = button[b].currState
                    /\ button'[b].currState = "resting"
       /\ FingerPass =>
             frameLog[Len(frameLog)] = "ButtonSystem"]_vars

\* ButtonSystem is about to test the pair (pressed, fully_pressed)
C12_Witness ==
    \E b \in ButtonIds :
        /\ pc = "ButtonSystem"
        /\ button[b].prevState = "pressed"
        /\ button[b].currState = "fully_pressed"
        /\ fis[b] = <<"fully_pressed", "pressed">>

IsPrefix(a, b) == Len(a) <= Len(b) /\ \A i \in 1..Len(a) : a[i] = b[i]

\* C13 as claimed: in every frame the systems run in the order
\* CalibrationSystem, ButtonSystem, FingerInputSystem, InstructionSystem.
C13_ClaimedOrder ==
    IsPrefix(frameLog, <<"CalibrationSystem", "ButtonSystem",
                         "FingerInputSystem", "InstructionSystem">>)

\* C13 as amended: in every frame the systems run in the order
\* InstructionSystem, CalibrationSystem, ButtonSystem, FingerInputSystem, and
\* a frame starts only when the frame before has run all four.
C13_ExecutionOrder ==
    /\ IsPrefix(frameLog, <<"InstructionSystem", "CalibrationSystem",
                            "ButtonSystem", "FingerInputSystem">>)
    /\ pc = "InstructionSystem" => Len(frameLog) \in {0, 4}
    /\ pc # "InstructionSystem" => frameLog[Len(frameLog)] # "FingerInputSystem"

\* a frame that has run all four systems
C13_Witness ==
    /\ frameLog = <<"InstructionSystem", "CalibrationSystem",
                     "ButtonSystem", "FingerInputSystem">>
    /\ pc = "InstructionSystem"

\* the end-of-frame states of the last two frames, as <<from, to>>
FrameChange(b) == <<Norm(fis[b][2]), Norm(fis[b][1])>>
Same == {<<st, st>> : st \in States}

\* C14 as claimed: the end-of-frame state changes only along
\* resting->pressed, pressed->fully_pressed, pressed->recovering,
\* fully_pressed->recovering, recovering->resting, or stays; it starts resting.
C14_ClaimedTransitions ==
    \A b \in ButtonIds :
        /\ FrameChange(b) \in Same \cup
               {<<"resting", "pressed">>, <<"pressed", "fully_pressed">>,
                <<"pressed", "recovering">>, <<"fully_pressed", "recovering">>,
                <<"recovering", "resting">>}
        /\ fis[b][1] = "none" => button[b].currState = "resting"

\* C14 as amended: the changes above, and also resting->fully_pressed,
\* pressed->resting, recovering->pressed and recovering->fully_pressed.
C14_Transitions ==
    \A b \in ButtonIds :
        /\ FrameChange(b) \in Same \cup
               {<<"resting", "pressed">>, <<"pressed", "fully_pressed">>,
                <<"pressed", "recovering">>, <<"fully_pressed", "recovering">>,
                <<"recovering", "resting">>,
                <<"resting", "fully_pressed">>, <<"pressed", "resting">>,
                <<"recovering", "pressed">>, <<"recovering", "fully_pressed">>}
        /\ fis[b][1] = "none" => button[b].currState = "resting"

\* a recovering button is touched again before it is back at rest
C14_Witness ==
    \E b \in ButtonIds :
        /\ fis[b] = <<"pressed", "recovering">>
        /\ posY[b] < RestY(b)

\* C15: restingY is set by the first ButtonSystem pass, from position.y as it
\* is before any FingerInputSystem pass has run, and no step changes it
\* afterwards.
C15_RestingYCapturedOnce ==
    [][\A b \in ButtonIds :
          /\ button[b].restingY = Null =>
                 /\ fis[b][1] = "none"
                 /\ posY[b] = InitialY
                 /\ ButtonPass => button'[b].restingY = Some(posY[b])
                 /\ ~ButtonPass => button'[b].restingY = Null
          /\ button[b].restingY # Null =>
                 button'[b].restingY = button[b].restingY]_vars

\* a ButtonSystem pass has just run over a displaced button and restingY is
\* still the initial height
C15_Witness ==
    \E b \in ButtonIds :
        /\ AfterButtonPass
        /\ posY[b] < InitialY
        /\ button[b].restingY = Some(InitialY)

\* C16: after a FingerInputSystem pass, fully_pressed means position.y =
\* restingY - fullPressDistance and resting means position.y = restingY.
C16_StateAgreesWithPosition ==
    \A b \in ButtonIds :
        /\ fis[b][1] = "fully_pressed" =>
               posY[b] = Num(button[b].restingY) - FullPressDistance(b)
        /\ fis[b][1] = "resting" => posY[b] = Num(button[b].restingY)

\* a button is resting at restingY in the frame after it was recovering
C16_Witness ==
    \E b \in ButtonIds :
        /\ fis[b] = <<"resting", "recovering">>
        /\ posY[b] = RestY(b)
        /\ button[b].restingY # Null

\* C17: a frame that ends resting is never followed by a frame that ends
\* recovering; recovering follows only pressed, fully_pressed or recovering.
C17_NoRecoveringFromRest ==
    \A b \in ButtonIds :
        fis[b][1] = "recovering" =>
            fis[b][2] \in {"pressed", "fully_pressed", "recovering"}

\* a partly pressed button let go: recovering follows pressed
C17_Witness ==
    \E b \in ButtonIds :
        /\ fis[b] = <<"recovering", "pressed">>
        /\ contact[b].hands = 0

AllAtRest ==
    \A b \in ButtonIds : fis[b][1] = "resting" /\ posY[b] = RestY(b)

\* C18: once no hand contacts the buttons any more and every frame has
\* delta > 0, every button eventually is resting at restingY and stays so.
C18_RecoversToRest == [](reach = {} => <>[]AllAtRest)

\* a button let go while displaced has come back to rest
C18_Witness ==
    /\ reach = {}
    /\ AllAtRest
    /\ \E b \in ButtonIds : fis[b] = <<"resting", "recovering">>

\* C19: every exit timer that fires finds an XR session to end.
C19_TimerFindsSession ==
    [][timers' < timers => session /\ ~crashed']_vars

LastScene == NumScenes - 1

\* C20: currentSceneIndex stays in 0..scenes.length-1; next adds one and
\* wraps from the last scene to the first, back subtracts one and wraps from
\* the first to the last, home gives 0; back after next and next after back
\* restore the index.
C20_SceneIndex ==
    /\ currentSceneIndex \in 0..LastScene
    /\ nav.last = "none" => currentSceneIndex = 0
    /\ nav.last = "next" =>
           currentSceneIndex = IF nav.before = LastScene THEN 0 ELSE nav.before + 1
    /\ nav.last = "back" =>
           currentSceneIndex = IF nav.before = 0 THEN LastScene ELSE nav.before - 1
    /\ nav.last = "home" => currentSceneIndex = 0
    /\ (nav.last = "back" /\ nav.prior = "next") => currentSceneIndex = nav.before2
    /\ (nav.last = "next" /\ nav.prior = "back") => currentSceneIndex = nav.before2

\* back from the first scene wrapped to the last, and next wrapped back
C20_Witness ==
    /\ nav = [last |-> "next", prior |-> "back", before |-> LastScene, before2 |-> 0]
    /\ currentSceneIndex = 0
    /\ calls["next"].action = 1
====
